---------------------------- MODULE Spec2Model ----------------------------
(***************************************************************************)
(* A model of exist-activitywatch: the interval filter and the de-bouncer  *)
(* of the focus pipeline, the focus scorer and its orchestrator, and       *)
(* sync_date, the sync ledger of sync_state.py and the command-line driver *)
(* main.                                                                   *)
(*                                                                         *)
(* Time is fixed-point: an instant and a duration are integers counting    *)
(* tenths of a second ("ticks").  A timestamp is the string the telemetry  *)
(* source sends, modelled as the sequence of the character codes of its    *)
(* tail: every timestamp of a day shares the prefix "YYYY-MM-DDTHH:MM:S",  *)
(* so a string is <<s, 'Z'>> ("...SsZ") or <<s, '.', f, 'Z'>>              *)
(* ("...Ss.fZ"), s and f one decimal digit each.  Python compares strings  *)
(* by code point, so the order of two timestamps is the order of their     *)
(* tails.  A calendar date is the number of its day in the month; the key  *)
(* of the ledger is the string strftime("%Y-%m-%d") makes of it, modelled  *)
(* as the two digits of the day (all dates share the prefix "YYYY-MM-").   *)
(***************************************************************************)
EXTENDS Integers, Sequences, FiniteSets, TLC

VARIABLES
    f_events,      \* filter_events_by_not_afk: argument events
    f_afk,         \* the events of the idle bucket the intervals are derived from
    f_intervals,   \* filter_events_by_not_afk: argument not_afk_intervals
    f_out,         \* filter_events_by_not_afk: what the call produced
    f_pc,          \* "start", "ready" once the intervals are there, "done" after the call
    d_events,      \* debounce_events: argument events
    d_thr,         \* debounce_events: argument noise_threshold_sec
    d_out,         \* debounce_events: the sessions returned
    d_pc,          \* "ready" before the call, "done" after it
    s_in,          \* calculate_focus_score: [median_session_min, switches_per_hour, entropy]
    s_out,         \* calculate_focus_score: [raised, score]
    s_pc,          \* "ready" before the call, "done" after it
    a_env,         \* the telemetry source: [aw_up, window_bucket, afk_bucket]
    a_events,      \* the events of the window bucket for the date
    a_afk,         \* the events of the idle bucket for the date
    a_out,         \* analyze_focus_for_date: [kind, metrics]
    a_pc,          \* "ready" before the call, "done" after it
    pc,            \* sync_date: "idle", "fetch", "push", "returned"
    calls,         \* the calls of sync_date so far
    date,          \* sync_date: argument date
    dry_run,       \* sync_date: argument dry_run
    telemetry,     \* the telemetry source at the call: [aw_up, afk_bucket, window_bucket, web_bucket]
                   \* and analysis, what analyze_focus_for_date came to on its events
    metrics,       \* sync_date: the list metrics, of [attr, value]
    all_ok,        \* sync_date: all_ok
    attempts,      \* the update requests of this call the sink was sent, [attr, date, value, outcome]
    result,        \* sync_date: the value returned
    ledger,        \* sync_state.json: synced_dates, a function from date strings to synced_at
    now,           \* datetime.now(): the clock that stamps synced_at
    file_kind,     \* sync_state.json: "missing", "unreadable", "invalid_json",
                   \* "not_object", "no_synced_dates" or "document"
    today,         \* datetime.now(): the calendar date
    l_op,          \* the last operation of the ledger and what it came to
    m_pc,          \* main: "idle", "connect", "provision", "loop", "exited"
    args,          \* main: the parsed command line [date, days, dry_run, setup]
    ensured,       \* ensure_all_attributes: what ensure_attribute returned, per attribute
    dates,         \* main: the list dates
    done,          \* main: the calls of sync_date that returned, [date, result]
    success_count, \* main: success_count
    exit_status    \* the exit status of the process, -1 while it runs

filterVars == <<f_events, f_afk, f_intervals, f_out, f_pc>>

debVars == <<d_events, d_thr, d_out, d_pc>>

focusVars == <<s_in, s_out, s_pc, a_env, a_events, a_afk, a_out, a_pc>>

syncVars == <<pc, calls, date, dry_run, telemetry, metrics, all_ok, attempts, result>>

ledgerVars == <<ledger, now, file_kind, today, l_op>>

driverVars == <<m_pc, args, ensured, dates, done, success_count, exit_status>>

vars == <<filterVars, debVars, focusVars, syncVars, ledgerVars, driverVars>>

-----------------------------------------------------------------------------
(* Bounds of the model.                                                    *)

MaxFilterEvents == 2
MaxAfkEvents == 2
MaxDebEvents == 5
MaxOrderEvents == 3
MaxFocusEvents == 3
MaxMedianMin == 22
MaxSwitches == 40
MaxEntropyHalfBits == 50
MaxCalls == 2
MaxDate == 2
MaxClock == 3
MaxDay == 11
MaxLookback == 2
MaxKeep == 2
MaxDays == 2

-----------------------------------------------------------------------------
(* Character codes and timestamp strings.                                  *)

ChDot == 46
ChZero == 48
ChQuestion == 63
ChZ == 90

Digit(n) == ChZero + n

\* "...SsZ"
TsWhole(s) == <<Digit(s), ChZ>>

\* "...Ss.fZ"
TsFrac(s, f) == <<Digit(s), ChDot, Digit(f), ChZ>>

\* a string datetime.fromisoformat rejects
TsGarbage == <<ChQuestion>>

IsDigit(c) == c >= ChZero /\ c <= ChZero + 9

\* datetime.fromisoformat(ts.replace("Z", "+00:00")): TRUE when it parses
CanParse(ts) ==
    \/ Len(ts) = 2 /\ IsDigit(ts[1]) /\ ts[2] = ChZ
    \/ Len(ts) = 4 /\ IsDigit(ts[1]) /\ ts[2] = ChDot /\ IsDigit(ts[3]) /\ ts[4] = ChZ

\* the instant, in ticks, of a timestamp that parses
fromisoformat(ts) ==
    IF Len(ts) = 2
    THEN 10 * (ts[1] - ChZero)
    ELSE 10 * (ts[1] - ChZero) + (ts[3] - ChZero)

Min(a, b) == IF a < b THEN a ELSE b
Max(a, b) == IF a > b THEN a ELSE b

-----------------------------------------------------------------------------
(* activitywatch_client.py: the interval filter.                           *)
(*                                                                         *)
(* An event is [id, has_ts, timestamp, duration, app]: has_ts = FALSE is   *)
(* an event without a "timestamp" key, for which event.get("timestamp",    *)
(* "") is the empty string.  id stands for the fields the filter copies    *)
(* unchanged.  An interval is <<start, end>>, in ticks.                    *)

event_get_timestamp(e) == IF e.has_ts THEN e.timestamp ELSE <<>>

RECURSIVE _overlap_seconds(_, _, _)
_overlap_seconds(ev_start, ev_end, intervals) ==
    IF intervals = <<>>
    THEN 0
    ELSE LET intv == Head(intervals)
             overlap_start == Max(ev_start, intv[1])
             overlap_end == Min(ev_end, intv[2])
         IN  (IF overlap_start < overlap_end THEN overlap_end - overlap_start ELSE 0)
             + _overlap_seconds(ev_start, ev_end, Tail(intervals))

\* the loop of filter_events_by_not_afk from event i on, filtered being the
\* events kept so far; the result is [raised, events], raised = TRUE when
\* fromisoformat raised ValueError and the exception left the function
RECURSIVE filter_loop(_, _, _, _)
filter_loop(events, not_afk_intervals, i, filtered) ==
    IF i > Len(events)
    THEN [raised |-> FALSE, events |-> filtered]
    ELSE LET event == events[i]
             ts == event_get_timestamp(event)
             duration == event.duration
         IN  IF ts = <<>> \/ duration <= 0
             THEN filter_loop(events, not_afk_intervals, i + 1, filtered)
             ELSE IF ~CanParse(ts)
             THEN [raised |-> TRUE, events |-> <<>>]
             ELSE LET ev_start == fromisoformat(ts)
                      ev_end == ev_start + duration
                      active_secs == _overlap_seconds(ev_start, ev_end, not_afk_intervals)
                  IN  IF active_secs > 0
                      THEN filter_loop(events, not_afk_intervals, i + 1,
                               Append(filtered, [event EXCEPT !.duration = active_secs]))
                      ELSE filter_loop(events, not_afk_intervals, i + 1, filtered)

filter_events_by_not_afk(events, not_afk_intervals) ==
    IF not_afk_intervals = <<>>
    THEN [raised |-> FALSE, events |-> <<>>]
    ELSE filter_loop(events, not_afk_intervals, 1, <<>>)

\* intervals.sort(key=lambda x: x[0]): a stable sort by start
RECURSIVE insert_interval(_, _)
insert_interval(sorted, intv) ==
    IF sorted = <<>>
    THEN <<intv>>
    ELSE IF intv[1] < sorted[Len(sorted)][1]
    THEN Append(insert_interval(SubSeq(sorted, 1, Len(sorted) - 1), intv), sorted[Len(sorted)])
    ELSE Append(sorted, intv)

RECURSIVE sort_intervals(_)
sort_intervals(intervals) ==
    IF intervals = <<>>
    THEN <<>>
    ELSE insert_interval(sort_intervals(SubSeq(intervals, 1, Len(intervals) - 1)),
                         intervals[Len(intervals)])

\* the loop of get_not_afk_intervals over the events of the idle bucket; an
\* idle event is [timestamp, duration, status]
RECURSIVE not_afk_loop(_, _, _)
not_afk_loop(events, i, intervals) ==
    IF i > Len(events)
    THEN [raised |-> FALSE, intervals |-> sort_intervals(intervals)]
    ELSE LET event == events[i]
         IN  IF event.status = "not-afk"
             THEN IF ~CanParse(event.timestamp)
                  THEN [raised |-> TRUE, intervals |-> <<>>]
                  ELSE LET start == fromisoformat(event.timestamp)
                           end == start + event.duration
                       IN  not_afk_loop(events, i + 1, Append(intervals, <<start, end>>))
             ELSE not_afk_loop(events, i + 1, intervals)

\* afk_bucket = FALSE: find_afk_bucket() found no bucket
get_not_afk_intervals(afk_bucket, afk_events) ==
    IF ~afk_bucket
    THEN [raised |-> FALSE, intervals |-> <<>>]
    ELSE not_afk_loop(afk_events, 1, <<>>)

-----------------------------------------------------------------------------
(* The inputs of the interval filter.                                      *)

Apps == {"A", "B", "C"}

NoTimestamp(dur, a) == [has_ts |-> FALSE, timestamp |-> <<>>, duration |-> dur, app |-> a]

Ev(ts, dur, a) == [has_ts |-> TRUE, timestamp |-> ts, duration |-> dur, app |-> a]

\* the lists of n events drawn from templates, the id of an event its position
EventLists(n, templates) ==
    {[i \in 1..n |-> [id |-> i, has_ts |-> t[i].has_ts, timestamp |-> t[i].timestamp,
                      duration |-> t[i].duration, app |-> t[i].app]] :
        t \in [1..n -> templates]}

FilterEventSet ==
    {NoTimestamp(10, "A"), Ev(<<>>, 10, "A"), Ev(TsGarbage, 10, "A"),
     Ev(TsWhole(0), 0 - 10, "A"), Ev(TsWhole(0), 0, "A"), Ev(TsWhole(0), 10, "A"),
     Ev(TsWhole(0), 20, "A"), Ev(TsWhole(1), 10, "A"), Ev(TsWhole(1), 20, "A"),
     Ev(TsFrac(1, 5), 10, "A")}

Afk(ts, dur, st) == [timestamp |-> ts, duration |-> dur, status |-> st]

AfkEventSet ==
    {Afk(TsWhole(0), 10, "not-afk"), Afk(TsWhole(0), 20, "not-afk"),
     Afk(TsWhole(1), 10, "not-afk"), Afk(TsWhole(1), 20, "not-afk"),
     Afk(TsWhole(2), 10, "not-afk"), Afk(TsWhole(0), 30, "afk")}

AfkLists(n) == [1..n -> AfkEventSet]

FilterInit ==
    /\ \E n \in 0..MaxFilterEvents : f_events \in EventLists(n, FilterEventSet)
    /\ \E n \in 0..MaxAfkEvents : f_afk \in AfkLists(n)
    /\ f_intervals = <<>>
    /\ f_out = [raised |-> FALSE, events |-> <<>>]
    /\ f_pc = "start"

FilterIdle ==
    /\ f_events = <<>>
    /\ f_afk = <<>>
    /\ f_intervals = <<>>
    /\ f_out = [raised |-> FALSE, events |-> <<>>]
    /\ f_pc = "idle"

\* not_afk = get_not_afk_intervals(date), as the callers of the filter do
GetNotAfkIntervals ==
    /\ f_pc = "start"
    /\ f_intervals' = get_not_afk_intervals(TRUE, f_afk).intervals
    /\ f_pc' = "ready"
    /\ UNCHANGED <<f_events, f_afk, f_out>>
    /\ UNCHANGED <<debVars, focusVars, syncVars, ledgerVars, driverVars>>

\* events = filter_events_by_not_afk(events, not_afk)
FilterEventsByNotAfk ==
    /\ f_pc = "ready"
    /\ f_out' = filter_events_by_not_afk(f_events, f_intervals)
    /\ f_pc' = "done"
    /\ UNCHANGED <<f_events, f_afk, f_intervals>>
    /\ UNCHANGED <<debVars, focusVars, syncVars, ledgerVars, driverVars>>

-----------------------------------------------------------------------------
(* focus_analyzer.py: the de-bouncer.  A run and a session are             *)
(* [app, duration].                                                        *)

\* a < b for two Python strings: the order by code point
RECURSIVE str_less(_, _)
str_less(a, b) ==
    IF b = <<>> THEN FALSE
    ELSE IF a = <<>> THEN TRUE
    ELSE IF Head(a) # Head(b) THEN Head(a) < Head(b)
    ELSE str_less(Tail(a), Tail(b))

\* sorted(events, key=lambda e: e.get("timestamp", "")): a stable sort
RECURSIVE insert_event(_, _)
insert_event(sorted, e) ==
    IF sorted = <<>>
    THEN <<e>>
    ELSE IF str_less(event_get_timestamp(e), event_get_timestamp(sorted[Len(sorted)]))
    THEN Append(insert_event(SubSeq(sorted, 1, Len(sorted) - 1), e), sorted[Len(sorted)])
    ELSE Append(sorted, e)

\* a de-bouncer that takes the events in the order supplied
sorted_events_as_supplied(events) == events

RECURSIVE sorted_events(_)
sorted_events(events) ==
    IF events = <<>>
    THEN <<>>
    ELSE insert_event(sorted_events(SubSeq(events, 1, Len(events) - 1)), events[Len(events)])

\* first pass: merge consecutive same-app events
RECURSIVE merge_pass(_, _, _)
merge_pass(events, i, merged) ==
    IF i > Len(events)
    THEN merged
    ELSE LET app == events[i].app
             duration == events[i].duration
             n == Len(merged)
         IN  IF n > 0 /\ merged[n].app = app
             THEN merge_pass(events, i + 1,
                      [merged EXCEPT ![n].duration = merged[n].duration + duration])
             ELSE merge_pass(events, i + 1, Append(merged, [app |-> app, duration |-> duration]))

\* a de-bouncer that absorbs one noise run and stops (an "if" for the inner "while")
absorb_once(merged, i, current, noise_threshold_sec) ==
    IF i + 2 <= Len(merged)
       /\ merged[i + 1].duration < noise_threshold_sec
       /\ merged[i + 2].app = current.app
    THEN [i |-> i + 2,
          current |-> [current EXCEPT !.duration = current.duration + merged[i + 1].duration
                                                       + merged[i + 2].duration]]
    ELSE [i |-> i, current |-> current]

\* the inner while of the second pass: [i, current] when it ends
RECURSIVE absorb(_, _, _, _)
absorb(merged, i, current, noise_threshold_sec) ==
    IF i + 2 <= Len(merged)
       /\ merged[i + 1].duration < noise_threshold_sec
       /\ merged[i + 2].app = current.app
    THEN absorb(merged, i + 2,
                [current EXCEPT !.duration = current.duration + merged[i + 1].duration
                                                 + merged[i + 2].duration],
                noise_threshold_sec)
    ELSE [i |-> i, current |-> current]

\* second pass: the outer while, i being one more than the source's index
RECURSIVE absorb_pass(_, _, _, _)
absorb_pass(merged, i, cleaned, noise_threshold_sec) ==
    IF i > Len(merged)
    THEN cleaned
    ELSE LET r == absorb(merged, i, merged[i], noise_threshold_sec)
         IN  absorb_pass(merged, r.i + 1, Append(cleaned, r.current), noise_threshold_sec)

\* a final filter that wants more than the threshold
real_sessions_strict(cleaned, noise_threshold_sec) ==
    SelectSeq(cleaned, LAMBDA s : s.duration > noise_threshold_sec)

\* a de-bouncer without the final filter
real_sessions_unfiltered(cleaned, noise_threshold_sec) == cleaned

\* real_sessions = [s for s in cleaned if s["duration"] >= noise_threshold_sec]
real_sessions(cleaned, noise_threshold_sec) ==
    SelectSeq(cleaned, LAMBDA s : s.duration >= noise_threshold_sec)

\* sum(s["duration"] for s in sessions)
RECURSIVE SumDurations(_)
SumDurations(sessions) ==
    IF sessions = <<>> THEN 0 ELSE Head(sessions).duration + SumDurations(Tail(sessions))

debounce_events(events, noise_threshold_sec) ==
    IF events = <<>>
    THEN <<>>
    ELSE real_sessions(
             absorb_pass(merge_pass(sorted_events(events), 1, <<>>), 1, <<>>,
                         noise_threshold_sec),
             noise_threshold_sec)

-----------------------------------------------------------------------------
(* The inputs of the de-bouncer.                                           *)

NOISE_THRESHOLD_SEC == 5

DebThresholds == {3, NOISE_THRESHOLD_SEC}

DebDurations == {3, 600}

\* n events, one a second, supplied oldest first or newest first
DebEventLists(n) ==
    {[i \in 1..n |-> [id |-> i, has_ts |-> TRUE,
                      timestamp |-> TsWhole(IF rev THEN n - i ELSE i - 1),
                      duration |-> d[i], app |-> a[i]]] :
        rev \in BOOLEAN, d \in [1..n -> DebDurations], a \in [1..n -> Apps]}

DebInit ==
    /\ \E n \in 0..MaxDebEvents : d_events \in DebEventLists(n)
    /\ d_thr \in DebThresholds
    /\ d_out = <<>>
    /\ d_pc = "ready"

\* events whose timestamps are any of four strings, in any order; "...1.5Z"
\* is later than "...1Z" and sorts before it
OrderEventSet ==
    {Ev(ts, d, a) : ts \in {TsWhole(0), TsWhole(1), TsFrac(1, 5), TsWhole(2)},
                    d \in DebDurations, a \in {"A", "B"}}

OrderInit ==
    /\ \E n \in 0..MaxOrderEvents : d_events \in EventLists(n, OrderEventSet)
    /\ d_thr \in DebThresholds
    /\ d_out = <<>>
    /\ d_pc = "ready"

DebIdle ==
    /\ d_events = <<>>
    /\ d_thr = NOISE_THRESHOLD_SEC
    /\ d_out = <<>>
    /\ d_pc = "idle"

DebounceEvents ==
    /\ d_pc = "ready"
    /\ d_out' = debounce_events(d_events, d_thr)
    /\ d_pc' = "done"
    /\ UNCHANGED <<d_events, d_thr>>
    /\ UNCHANGED <<filterVars, focusVars, syncVars, ledgerVars, driverVars>>

-----------------------------------------------------------------------------
(* focus_analyzer.py: statistics, the scorer and the orchestrator.         *)
(*                                                                         *)
(* A float is fixed-point: minutes, switches per hour and bits are         *)
(* integers counting thousandths, a score before rounding counts           *)
(* hundredths of a point.                                                  *)

\* sorted(values)
RECURSIVE insert_value(_, _)
insert_value(sorted, v) ==
    IF sorted = <<>>
    THEN <<v>>
    ELSE IF v < sorted[Len(sorted)]
    THEN Append(insert_value(SubSeq(sorted, 1, Len(sorted) - 1), v), sorted[Len(sorted)])
    ELSE Append(sorted, v)

RECURSIVE sorted_vals(_)
sorted_vals(values) ==
    IF values = <<>>
    THEN <<>>
    ELSE insert_value(sorted_vals(SubSeq(values, 1, Len(values) - 1)), values[Len(values)])

calculate_median(values) ==
    IF values = <<>>
    THEN 0
    ELSE LET sv == sorted_vals(values)
             n == Len(sv)
             mid == n \div 2
         IN  IF n % 2 = 0
             THEN (sv[mid] + sv[mid + 1]) \div 2
             ELSE sv[mid + 1]

RECURSIVE floor_log2(_)
floor_log2(n) == IF n < 2 THEN 0 ELSE 1 + floor_log2(n \div 2)

RECURSIVE pow2(_)
pow2(k) == IF k = 0 THEN 1 ELSE 2 * pow2(k - 1)

\* the binary digits after the point of log2(m / 4096), 4096 <= m < 8192
RECURSIVE log2_frac(_, _)
log2_frac(m, bits) ==
    IF bits = 0
    THEN 0
    ELSE LET m2 == (m * m) \div 4096
         IN  IF m2 >= 8192
             THEN pow2(bits - 1) + log2_frac(m2 \div 2, bits - 1)
             ELSE log2_frac(m2, bits - 1)

\* math.log2(n) in thousandths, n >= 1 an integer
log2(n) ==
    LET k == floor_log2(n)
    IN  1000 * k + (1000 * log2_frac((n * 4096) \div pow2(k), 10)) \div 1024

\* the total duration of the sessions of one app
RECURSIVE app_duration(_, _)
app_duration(sessions, app) ==
    IF sessions = <<>>
    THEN 0
    ELSE (IF Head(sessions).app = app THEN Head(sessions).duration ELSE 0)
         + app_duration(Tail(sessions), app)

RECURSIVE entropy_sum(_, _, _)
entropy_sum(sessions, apps, total_duration) ==
    IF apps = {}
    THEN 0
    ELSE LET app == CHOOSE x \in apps : TRUE
             duration == app_duration(sessions, app)
         IN  (IF duration > 0
              THEN (duration * (log2(total_duration) - log2(duration))) \div total_duration
              ELSE 0)
             + entropy_sum(sessions, apps \ {app}, total_duration)

\* -sum(p * log2(p)) with p = duration / total_duration, in thousandths of a bit
calculate_shannon_entropy(sessions) ==
    IF sessions = <<>>
    THEN 0
    ELSE LET apps == {sessions[i].app : i \in 1..Len(sessions)}
             total_duration == SumDurations(sessions)
         IN  IF total_duration = 0
             THEN 0
             ELSE entropy_sum(sessions, apps, total_duration)

\* FOCUS_SCORE_K = 0.05, in thousandths
FOCUS_SCORE_K == 50

\* e^(-q) for an integer q >= 0, in ten-thousandths
RECURSIVE exp_neg_int(_)
exp_neg_int(q) == IF q = 0 THEN 10000 ELSE (exp_neg_int(q - 1) * 3679) \div 10000

\* the terms k..8 of the series of e^(-r / 1000), term being term k - 1
RECURSIVE exp_series(_, _, _)
exp_series(r, k, term) ==
    IF k > 8
    THEN 0
    ELSE LET t == (term * r) \div (1000 * k)
         IN  (IF k % 2 = 1 THEN 0 - t ELSE t) + exp_series(r, k + 1, t)

\* math.exp(-x) for x >= 0 in thousandths, in ten-thousandths
exp_neg(x) ==
    (exp_neg_int(x \div 1000) * (10000 + exp_series(x % 1000, 1, 10000))) \div 10000

\* int(round(score)) for a score in hundredths: Python rounds a half to even
int_round(score) ==
    LET q == score \div 100
        r == score % 100
    IN  IF r > 50 THEN q + 1
        ELSE IF r < 50 THEN q
        ELSE IF q % 2 = 0 THEN q ELSE q + 1

\* a float too large for the fixed point: a finite float above DBL_MAX / 5,
\* whose product with 5 is inf
HugeFloat == 2147483647

\* raised = TRUE: OverflowError leaves the call.  With entropy * 5 = inf the
\* score is -inf, and round(-inf) raises before the clamp is reached
calculate_focus_score(median_session_min, switches_per_hour, entropy) ==
    LET base_score == IF switches_per_hour = HugeFloat
                      THEN 0
                      ELSE exp_neg((FOCUS_SCORE_K * switches_per_hour) \div 1000)
        session_bonus == Min(2000, median_session_min \div 10)
        entropy_penalty == (entropy * 5) \div 10
        score == base_score + session_bonus - entropy_penalty
    IN  IF entropy = HugeFloat
        THEN [raised |-> TRUE, score |-> 0]
        ELSE [raised |-> FALSE, score |-> Max(0, Min(100, int_round(score)))]

\* find_window_bucket, get_events_for_date, get_not_afk_intervals and the
\* filter; env.aw_up = FALSE: the request to the telemetry source raises
get_window_events_for_date(env, events, afk_events) ==
    IF ~env.aw_up
    THEN [raised |-> TRUE, events |-> <<>>]
    ELSE IF ~env.window_bucket
    THEN [raised |-> FALSE, events |-> <<>>]
    ELSE LET not_afk == get_not_afk_intervals(env.afk_bucket, afk_events)
         IN  IF not_afk.raised
             THEN [raised |-> TRUE, events |-> <<>>]
             ELSE filter_events_by_not_afk(events, not_afk.intervals)

NoMetrics ==
    [median_session_min |-> 0, switches_per_hour |-> 0, shannon_entropy |-> 0,
     total_sessions |-> 0, total_time_min |-> 0, focus_score |-> 0]

\* lines 226-250 of analyze_focus_for_date: the record of the sessions
focus_metrics(sessions) ==
    LET durations_sec == [i \in 1..Len(sessions) |-> sessions[i].duration]
        durations_min == [i \in 1..Len(sessions) |-> (durations_sec[i] * 1000) \div 600]
        median_session_min == calculate_median(durations_min)
        total_time_sec == SumDurations(sessions)
        switches_per_hour ==
            IF total_time_sec > 0
            THEN ((Len(sessions) - 1) * 36000000) \div total_time_sec
            ELSE 0
        entropy == calculate_shannon_entropy(sessions)
    IN  [median_session_min |-> median_session_min,
         switches_per_hour |-> switches_per_hour,
         shannon_entropy |-> entropy,
         total_sessions |-> Len(sessions),
         total_time_min |-> (total_time_sec * 1000) \div 600,
         focus_score |-> calculate_focus_score(median_session_min, switches_per_hour,
                                              entropy).score]

\* an orchestrator without "if not sessions: return None"
analyze_focus_for_date_unchecked(env, events, afk_events) ==
    LET w == get_window_events_for_date(env, events, afk_events)
    IN  IF w.raised
        THEN [kind |-> "raised", metrics |-> NoMetrics]
        ELSE IF w.events = <<>>
        THEN [kind |-> "none", metrics |-> NoMetrics]
        ELSE [kind |-> "metrics",
              metrics |-> focus_metrics(debounce_events(w.events, NOISE_THRESHOLD_SEC * 10))]

\* kind "none" is the return of None, "raised" an exception leaving the call
analyze_focus_for_date(env, events, afk_events) ==
    LET w == get_window_events_for_date(env, events, afk_events)
    IN  IF w.raised
        THEN [kind |-> "raised", metrics |-> NoMetrics]
        ELSE IF w.events = <<>>
        THEN [kind |-> "none", metrics |-> NoMetrics]
        ELSE LET sessions == debounce_events(w.events, NOISE_THRESHOLD_SEC * 10)
             IN  IF sessions = <<>>
                 THEN [kind |-> "none", metrics |-> NoMetrics]
                 ELSE [kind |-> "metrics", metrics |-> focus_metrics(sessions)]

\* metrics.focus_score if metrics else 50, for a call that returned
get_focus_score_for_date(analysis) ==
    IF analysis.kind = "metrics" THEN analysis.metrics.focus_score ELSE 50

-----------------------------------------------------------------------------
(* The inputs of the scorer and of the orchestrator.                       *)

ScoreInputs ==
    [median_session_min : {1000 * m : m \in 0..MaxMedianMin} \cup {500, 60070, HugeFloat},
     switches_per_hour : {1000 * n : n \in 0..MaxSwitches} \cup {HugeFloat},
     entropy : {500 * h : h \in 0..MaxEntropyHalfBits} \cup {HugeFloat}]

FocusEnvs ==
    {[aw_up |-> TRUE, window_bucket |-> TRUE, afk_bucket |-> TRUE],
     [aw_up |-> FALSE, window_bucket |-> TRUE, afk_bucket |-> TRUE],
     [aw_up |-> TRUE, window_bucket |-> FALSE, afk_bucket |-> TRUE],
     [aw_up |-> TRUE, window_bucket |-> TRUE, afk_bucket |-> FALSE]}

\* window events of 3 s and of 2 min
FocusEventSet ==
    {Ev(ts, d, a) : ts \in {TsWhole(0), TsWhole(1)}, d \in {30, 1200}, a \in {"A", "B"}}
    \cup {Ev(TsGarbage, 1200, "A")}

FocusAfkLists ==
    {<<>>,
     <<Afk(TsWhole(0), 6000, "not-afk")>>,
     <<Afk(TsWhole(0), 20, "not-afk")>>,
     <<Afk(TsWhole(0), 6000, "afk")>>,
     <<Afk(TsGarbage, 6000, "not-afk")>>,
     <<Afk(TsWhole(1), 6000, "not-afk"), Afk(TsWhole(0), 20, "not-afk")>>}

ScoreIdle ==
    /\ s_in = [median_session_min |-> 0, switches_per_hour |-> 0, entropy |-> 0]
    /\ s_out = [raised |-> FALSE, score |-> 0]
    /\ s_pc = "idle"

AnalyzeIdle ==
    /\ a_env = [aw_up |-> TRUE, window_bucket |-> TRUE, afk_bucket |-> TRUE]
    /\ a_events = <<>>
    /\ a_afk = <<>>
    /\ a_out = [kind |-> "pending", metrics |-> NoMetrics]
    /\ a_pc = "idle"

FocusIdle == ScoreIdle /\ AnalyzeIdle

ScoreInit ==
    /\ s_in \in ScoreInputs
    /\ s_out = [raised |-> FALSE, score |-> 0]
    /\ s_pc = "ready"

AnalyzeInit ==
    /\ a_env \in FocusEnvs
    /\ \E n \in 0..MaxFocusEvents : a_events \in EventLists(n, FocusEventSet)
    /\ a_afk \in FocusAfkLists
    /\ a_out = [kind |-> "pending", metrics |-> NoMetrics]
    /\ a_pc = "ready"

FocusInit == (ScoreInit /\ AnalyzeIdle) \/ (ScoreIdle /\ AnalyzeInit)

CalculateFocusScore ==
    /\ s_pc = "ready"
    /\ s_out' = calculate_focus_score(s_in.median_session_min, s_in.switches_per_hour,
                                      s_in.entropy)
    /\ s_pc' = "done"
    /\ UNCHANGED <<s_in, a_env, a_events, a_afk, a_out, a_pc>>
    /\ UNCHANGED <<filterVars, debVars, syncVars, ledgerVars, driverVars>>

AnalyzeFocusForDate ==
    /\ a_pc = "ready"
    /\ a_out' = analyze_focus_for_date(a_env, a_events, a_afk)
    /\ a_pc' = "done"
    /\ UNCHANGED <<s_in, s_out, s_pc, a_env, a_events, a_afk>>
    /\ UNCHANGED <<filterVars, debVars, syncVars, ledgerVars, driverVars>>

-----------------------------------------------------------------------------
(* sync.py and sync_state.py: sync_date and the ledger.                    *)

EXIST_SCREEN_TIME_ATTR == "screen_time"
EXIST_SOCIAL_ATTR == "social_networks"
EXIST_GPT_ATTR == "ai_assistants"
EXIST_FOCUS_SCORE_ATTR == "focus_score"

Dates == 1..MaxDate

SyncEnvs == [aw_up : BOOLEAN, afk_bucket : BOOLEAN, window_bucket : BOOLEAN, web_bucket : BOOLEAN]

\* what analyze_focus_for_date gave sync_date: None, a record or an exception
Analyses ==
    {[kind |-> "none", metrics |-> NoMetrics],
     [kind |-> "raised", metrics |-> NoMetrics],
     [kind |-> "metrics", metrics |-> [NoMetrics EXCEPT !.total_sessions = 1, !.focus_score = 73]]}

\* fetches that fail when the web bucket is missing too
sync_fetch_web_required(e, analysis) ==
    IF ~e.aw_up \/ ~e.afk_bucket \/ ~e.window_bucket \/ ~e.web_bucket
       \/ analysis.kind = "raised"
    THEN [raised |-> TRUE, metrics |-> <<>>]
    ELSE [raised |-> FALSE,
          metrics |-> <<[attr |-> EXIST_SCREEN_TIME_ATTR, value |-> 90],
                        [attr |-> EXIST_SOCIAL_ATTR, value |-> 10],
                        [attr |-> EXIST_GPT_ATTR, value |-> 5],
                        [attr |-> EXIST_FOCUS_SCORE_ATTR,
                         value |-> get_focus_score_for_date(analysis)]>>]

\* lines 57-63 of sync_date: the four values, or raised = TRUE when one of the
\* calls raised; the minutes of the day are 90 of screen time, 10 social, 5 AI
sync_fetch(e, analysis) ==
    IF ~e.aw_up \/ ~e.afk_bucket \/ ~e.window_bucket \/ analysis.kind = "raised"
    THEN [raised |-> TRUE, metrics |-> <<>>]
    ELSE [raised |-> FALSE,
          metrics |-> <<[attr |-> EXIST_SCREEN_TIME_ATTR, value |-> 90],
                        [attr |-> EXIST_SOCIAL_ATTR, value |-> 10],
                        [attr |-> EXIST_GPT_ATTR, value |-> IF e.web_bucket THEN 5 ELSE 0],
                        [attr |-> EXIST_FOCUS_SCORE_ATTR,
                         value |-> get_focus_score_for_date(analysis)]>>]

\* lines 90-94: all_ok after a push that returned; outcome "success" is a
\* result with a non-empty "success" list
push_result(ok, outcome) == IF outcome = "success" THEN ok ELSE FALSE

\* what an update request comes to: a result with "success", a result with
\* "failed", or raise_for_status / the connection raising
PushOutcomes == {"success", "failed", "raise"}

\* before the fetches of a call
NoTelemetry ==
    [aw_up |-> TRUE, afk_bucket |-> TRUE, window_bucket |-> TRUE, web_bucket |-> TRUE,
     analysis |-> "none"]

SyncIdle ==
    /\ pc = "idle"
    /\ calls = 0
    /\ date = 1
    /\ dry_run = FALSE
    /\ telemetry = NoTelemetry
    /\ metrics = <<>>
    /\ all_ok = TRUE
    /\ attempts = <<>>
    /\ result = FALSE

SyncInit == SyncIdle

\* sync_date(date, dry_run) is called: lines 52-53
CallSyncDate(d, dry) ==
    /\ pc \in {"idle", "returned"}
    /\ calls < MaxCalls
    /\ calls' = calls + 1
    /\ pc' = "fetch"
    /\ date' = d
    /\ dry_run' = dry
    /\ all_ok' = TRUE
    /\ metrics' = <<>>
    /\ attempts' = <<>>
    /\ UNCHANGED <<telemetry, result>>
    /\ UNCHANGED <<filterVars, debVars, focusVars, ledgerVars, driverVars>>

\* lines 55-78 and 99-103: the fetches, the dry-run return, the except clause
FetchMetrics(e, analysis) ==
    /\ pc = "fetch"
    /\ telemetry' = [aw_up |-> e.aw_up, afk_bucket |-> e.afk_bucket,
                     window_bucket |-> e.window_bucket, web_bucket |-> e.web_bucket,
                     analysis |-> analysis.kind]
    /\ LET f == sync_fetch(e, analysis)
       IN  IF f.raised
           THEN /\ all_ok' = FALSE
                /\ result' = FALSE
                /\ pc' = "returned"
                /\ UNCHANGED metrics
           ELSE IF dry_run
           THEN /\ result' = TRUE
                /\ pc' = "returned"
                /\ metrics' = f.metrics
                /\ UNCHANGED all_ok
           ELSE /\ pc' = "push"
                /\ metrics' = f.metrics
                /\ UNCHANGED <<all_ok, result>>
    /\ UNCHANGED <<calls, date, dry_run, attempts>>
    /\ UNCHANGED <<filterVars, debVars, focusVars, ledgerVars, driverVars>>

\* one turn of the loop of lines 88-94, and lines 96-103 after the last one
\* or after an exception
PushNext(outcome) ==
    /\ pc = "push"
    /\ LET m == metrics[Len(attempts) + 1]
       IN  attempts' = Append(attempts, [attr |-> m.attr, date |-> date, value |-> m.value,
                                         outcome |-> outcome])
    /\ IF outcome = "raise"
       THEN /\ all_ok' = FALSE
            /\ result' = FALSE
            /\ pc' = "returned"
       ELSE /\ all_ok' = push_result(all_ok, outcome)
            /\ IF Len(attempts) + 1 = Len(metrics)
               THEN pc' = "returned" /\ result' = all_ok'
               ELSE pc' = "push" /\ UNCHANGED result
    /\ UNCHANGED <<calls, date, dry_run, telemetry, metrics>>
    /\ UNCHANGED <<filterVars, debVars, focusVars, ledgerVars, driverVars>>

-----------------------------------------------------------------------------
(* sync_state.py: the ledger.                                              *)

BACKFILL_DAYS == 7

\* date.strftime("%Y-%m-%d"): the day of the month in two digits
strftime(d) == <<ChZero + (d \div 10), ChZero + (d % 10)>>

\* what sync_state.json can hold: no file; a file open() cannot read; text
\* that is no JSON; JSON that is no object ([]); an object without
\* "synced_dates" ({}); the document _save_state writes
FileKinds ==
    {"missing", "unreadable", "invalid_json", "not_object", "no_synced_dates", "document"}

\* _load_state(): the state read; shape "document" is {"synced_dates": {...}}
_load_state(kind, synced_dates) ==
    CASE kind \in {"missing", "unreadable", "invalid_json"} ->
             [shape |-> "document", synced_dates |-> <<>>]
      [] kind = "document" ->
             [shape |-> "document", synced_dates |-> synced_dates]
      [] OTHER ->
             [shape |-> kind, synced_dates |-> <<>>]

\* _save_state(state): open(SYNC_STATE_FILE, "w") raises on a path that
\* cannot be opened; a file that cannot be read may or may not be writable
Writable(kind) == IF kind = "unreadable" THEN BOOLEAN ELSE {TRUE}

\* a mark_synced that writes a fresh mapping holding the one date
mark_synced_alone(synced_dates, d, t) == [x \in {strftime(d)} |-> t]

\* mark_synced(date): state["synced_dates"][date_str] = datetime.now().isoformat()
mark_synced(synced_dates, d, t) ==
    [x \in (DOMAIN synced_dates) \cup {strftime(d)} |->
        IF x = strftime(d) THEN t ELSE synced_dates[x]]

\* is_synced(date)
is_synced(synced_dates, d) == strftime(d) \in DOMAIN synced_dates

\* the loop run as range(1, days + 1): newest first
RECURSIVE unsynced_loop_newest_first(_, _, _, _)
unsynced_loop_newest_first(synced, td, i, unsynced) ==
    IF i <= 0
    THEN unsynced
    ELSE LET d == td - i
         IN  unsynced_loop_newest_first(synced, td, i - 1,
                                        IF strftime(d) \notin DOMAIN synced
                                        THEN <<d>> \o unsynced
                                        ELSE unsynced)

\* the loop of get_unsynced_dates: for i in range(days, 0, -1)
RECURSIVE unsynced_loop(_, _, _, _)
unsynced_loop(synced, td, i, unsynced) ==
    IF i <= 0
    THEN unsynced
    ELSE LET d == td - i
         IN  unsynced_loop(synced, td, i - 1,
                           IF strftime(d) \notin DOMAIN synced
                           THEN Append(unsynced, d)
                           ELSE unsynced)

\* get_unsynced_dates(days) on the mapping synced, today being td
get_unsynced_dates(synced, td, days) == unsynced_loop(synced, td, days, <<>>)

\* a cleanup that keeps k > cutoff only
cleanup_old_entries_strict(synced_dates, cutoff) ==
    LET kept == {k \in DOMAIN synced_dates : str_less(cutoff, k)}
    IN  IF kept = {} THEN <<>> ELSE [k \in kept |-> synced_dates[k]]

\* cleanup_old_entries: {k: v for k, v in ... if k >= cutoff}
cleanup_old_entries(synced_dates, cutoff) ==
    LET kept == {k \in DOMAIN synced_dates : ~str_less(k, cutoff)}
    IN  IF kept = {} THEN <<>> ELSE [k \in kept |-> synced_dates[k]]

\* the record of a call: the operation, its argument, the kind of file it
\* found, whether it raised, and what it returned (flag for is_synced, dates
\* for get_unsynced_dates); for mark_synced flag tells whether the key was
\* there before the assignment
LOp(op, arg, loaded, raised, flag, ds) ==
    [op |-> op, arg |-> arg, loaded |-> loaded, raised |-> raised, flag |-> flag, dates |-> ds]

NoOp == LOp("none", 0, "missing", FALSE, FALSE, <<>>)

LedgerDates == (MaxDay - 3)..MaxDay

\* the argument days of get_unsynced_dates: None or a number
LookbackArgs == {[none |-> TRUE, n |-> 0]} \cup {[none |-> FALSE, n |-> n] : n \in 0..MaxLookback}

LedgerIdle ==
    /\ ledger = <<>>
    /\ now = 0
    /\ file_kind = "missing"
    /\ today = MaxDay - 1
    /\ l_op = NoOp

\* the file a run finds: of any kind, a document holding entries of earlier
\* runs (synced_at 0)
LedgerInit ==
    /\ file_kind \in FileKinds
    /\ \E S \in SUBSET LedgerDates :
          /\ file_kind # "document" => S = {}
          /\ ledger = IF S = {} THEN <<>> ELSE [k \in {strftime(d) : d \in S} |-> 0]
    /\ now = 1
    /\ today = MaxDay - 1
    /\ l_op = NoOp

\* mark_synced(date), lines 28-33
MarkSynced(d) ==
    /\ pc \in {"idle", "returned"}
    /\ now < MaxClock
    /\ now' = now + 1
    /\ LET state == _load_state(file_kind, ledger)
       IN  \E writable \in Writable(file_kind) :
              IF state.shape # "document" \/ ~writable
              THEN /\ l_op' = LOp("mark_synced", d, file_kind, TRUE, FALSE, <<>>)
                   /\ UNCHANGED <<ledger, file_kind>>
              ELSE /\ ledger' = mark_synced(state.synced_dates, d, now)
                   /\ file_kind' = "document"
                   /\ l_op' = LOp("mark_synced", d, file_kind, FALSE,
                                  is_synced(state.synced_dates, d), <<>>)
    /\ UNCHANGED today
    /\ UNCHANGED <<filterVars, debVars, focusVars, syncVars, driverVars>>

\* is_synced(date), lines 36-39
IsSynced(d) ==
    /\ LET state == _load_state(file_kind, ledger)
       IN  IF state.shape # "document"
           THEN l_op' = LOp("is_synced", d, file_kind, TRUE, FALSE, <<>>)
           ELSE l_op' = LOp("is_synced", d, file_kind, FALSE,
                            is_synced(state.synced_dates, d), <<>>)
    /\ UNCHANGED <<ledger, now, file_kind, today>>
    /\ UNCHANGED <<filterVars, debVars, focusVars, syncVars, driverVars>>

\* get_unsynced_dates(days), lines 42-65: state.get("synced_dates", {})
\* raises on a state that is no object
GetUnsyncedDates(a) ==
    /\ LET days == IF a.none THEN BACKFILL_DAYS ELSE a.n
           state == _load_state(file_kind, ledger)
       IN  IF state.shape = "not_object"
           THEN l_op' = LOp("get_unsynced_dates", days, file_kind, TRUE, FALSE, <<>>)
           ELSE l_op' = LOp("get_unsynced_dates", days, file_kind, FALSE, FALSE,
                            get_unsynced_dates(state.synced_dates, today, days))
    /\ UNCHANGED <<ledger, now, file_kind, today>>
    /\ UNCHANGED <<filterVars, debVars, focusVars, syncVars, driverVars>>

\* cleanup_old_entries(keep_days), lines 68-75
CleanupOldEntries(keep_days) ==
    /\ LET state == _load_state(file_kind, ledger)
           cutoff == strftime(today - keep_days)
       IN  \E writable \in Writable(file_kind) :
              IF state.shape # "document" \/ ~writable
              THEN /\ l_op' = LOp("cleanup_old_entries", keep_days, file_kind, TRUE, FALSE, <<>>)
                   /\ UNCHANGED <<ledger, file_kind>>
              ELSE /\ ledger' = cleanup_old_entries(state.synced_dates, cutoff)
                   /\ file_kind' = "document"
                   /\ l_op' = LOp("cleanup_old_entries", keep_days, file_kind, FALSE, FALSE, <<>>)
    /\ UNCHANGED <<now, today>>
    /\ UNCHANGED <<filterVars, debVars, focusVars, syncVars, driverVars>>

\* the day ends: datetime.now() is a day later
Midnight ==
    /\ today < MaxDay
    /\ today' = today + 1
    /\ UNCHANGED <<ledger, now, file_kind, l_op>>
    /\ UNCHANGED <<filterVars, debVars, focusVars, syncVars, driverVars>>

-----------------------------------------------------------------------------
(* sync.py: main, the command-line driver.                                 *)

\* exist_client.MANAGED_ATTRIBUTES, by name
MANAGED_ATTRIBUTES ==
    <<EXIST_SCREEN_TIME_ATTR, EXIST_SOCIAL_ATTR, EXIST_GPT_ATTR, EXIST_FOCUS_SCORE_ATTR>>

\* what the sink answers to the requests of one ensure_attribute: the owned
\* list, the first acquire, the create, the second acquire; "http_error" is
\* raise_for_status raising HTTPError, "conn_error" any other exception of
\* the request
SinkResponses ==
    [owned : {"owned", "not_owned", "raise"},
     acquire : {"success", "failed", "http_error", "conn_error"},
     create : {"ok", "failed", "http_error", "conn_error"},
     acquire2 : {"success", "failed", "http_error", "conn_error"}]

\* ensure_attribute(attr_config): "true", "false", or "raise" when an
\* exception that is no HTTPError leaves it
ensure_attribute(r) ==
    IF r.owned = "owned" THEN "true"
    ELSE IF r.acquire = "success" THEN "true"
    ELSE IF r.acquire = "conn_error" THEN "raise"
    ELSE IF r.create = "conn_error" THEN "raise"
    ELSE IF r.create \in {"failed", "http_error"} THEN "false"
    ELSE IF r.acquire2 = "success" THEN "true"
    ELSE IF r.acquire2 = "conn_error" THEN "raise"
    ELSE "false"

\* an ensure_all_attributes that returns what the last attribute came to
ensure_all_attributes_last(results) == results[Len(results)]

\* ensure_all_attributes(): all_ok after the loop over MANAGED_ATTRIBUTES
ensure_all_attributes(results) == \A i \in 1..Len(results) : results[i]

\* lines 158-163 of main: the dates to sync, oldest first
requested_dates(a, td) ==
    IF a.date # 0
    THEN <<a.date>>
    ELSE [i \in 1..a.days |-> td - a.days + i]

\* an exit status that fails only when no date was synced
main_exit_status_none(count, ds) == IF count = 0 /\ Len(ds) > 0 THEN 1 ELSE 0

\* lines 173-174 of main
main_exit_status(count, ds) == IF count < Len(ds) THEN 1 ELSE 0

\* the parsed command line: date 0 is no --date
ArgSets == [date : {0} \cup Dates, days : 0..MaxDays, dry_run : BOOLEAN, setup : BOOLEAN]

DriverIdle ==
    /\ m_pc = "idle"
    /\ args = [date |-> 0, days |-> 1, dry_run |-> FALSE, setup |-> FALSE]
    /\ ensured = <<>>
    /\ dates = <<>>
    /\ done = <<>>
    /\ success_count = 0
    /\ exit_status = -1

\* main after parse_args
DriverInit ==
    /\ m_pc = "connect"
    /\ args \in ArgSets
    /\ ensured = <<>>
    /\ dates = <<>>
    /\ done = <<>>
    /\ success_count = 0
    /\ exit_status = -1

\* lines 134-142: the connection check
Connect(up) ==
    /\ m_pc = "connect"
    /\ IF up
       THEN m_pc' = "provision" /\ UNCHANGED exit_status
       ELSE m_pc' = "exited" /\ exit_status' = 1
    /\ UNCHANGED <<args, ensured, dates, done, success_count>>
    /\ UNCHANGED <<filterVars, debVars, focusVars, syncVars, ledgerVars>>

\* one turn of the loop of ensure_all_attributes, and lines 146-163 of main
\* after the last one; an exception leaving ensure_attribute ends the process
EnsureAttribute(r) ==
    /\ m_pc = "provision"
    /\ LET o == ensure_attribute(r)
           results == Append(ensured, o = "true")
       IN  IF o = "raise"
           THEN /\ m_pc' = "exited"
                /\ exit_status' = 1
                /\ UNCHANGED <<ensured, dates>>
           ELSE /\ ensured' = results
                /\ IF Len(results) < Len(MANAGED_ATTRIBUTES)
                   THEN UNCHANGED <<m_pc, exit_status, dates>>
                   ELSE IF ~ensure_all_attributes(results)
                   THEN m_pc' = "exited" /\ exit_status' = 1 /\ UNCHANGED dates
                   ELSE IF args.setup
                   THEN m_pc' = "exited" /\ exit_status' = 0 /\ UNCHANGED dates
                   ELSE /\ m_pc' = "loop"
                        /\ dates' = requested_dates(args, today)
                        /\ UNCHANGED exit_status
    /\ UNCHANGED <<args, done, success_count>>
    /\ UNCHANGED <<filterVars, debVars, focusVars, syncVars, ledgerVars>>

\* line 168: main calls sync_date(date, args.dry_run) for the next date
MainSyncDate ==
    /\ m_pc = "loop"
    /\ pc = "idle"
    /\ Len(done) < Len(dates)
    /\ calls' = calls + 1
    /\ pc' = "fetch"
    /\ date' = dates[Len(done) + 1]
    /\ dry_run' = args.dry_run
    /\ all_ok' = TRUE
    /\ metrics' = <<>>
    /\ attempts' = <<>>
    /\ UNCHANGED <<telemetry, result>>
    /\ UNCHANGED <<filterVars, debVars, focusVars, ledgerVars, driverVars>>

\* lines 168-169: sync_date returned, its locals are gone
SyncDateReturns ==
    /\ m_pc = "loop"
    /\ pc = "returned"
    /\ done' = Append(done, [date |-> date, result |-> result])
    /\ success_count' = IF result THEN success_count + 1 ELSE success_count
    /\ pc' = "idle"
    /\ metrics' = <<>>
    /\ attempts' = <<>>
    /\ all_ok' = TRUE
    /\ result' = FALSE
    /\ telemetry' = NoTelemetry
    /\ UNCHANGED <<calls, date, dry_run>>
    /\ UNCHANGED <<m_pc, args, ensured, dates, exit_status>>
    /\ UNCHANGED <<filterVars, debVars, focusVars, ledgerVars>>

\* lines 171-174: after the loop
MainExit ==
    /\ m_pc = "loop"
    /\ pc = "idle"
    /\ Len(done) = Len(dates)
    /\ m_pc' = "exited"
    /\ exit_status' = main_exit_status(success_count, dates)
    /\ UNCHANGED <<args, ensured, dates, done, success_count>>
    /\ UNCHANGED <<filterVars, debVars, focusVars, syncVars, ledgerVars>>

-----------------------------------------------------------------------------
(* Specifications.                                                         *)

DriverNext ==
    \/ \E up \in BOOLEAN : Connect(up)
    \/ \E r \in SinkResponses : EnsureAttribute(r)
    \/ MainSyncDate
    \/ \E e \in SyncEnvs, analysis \in Analyses : FetchMetrics(e, analysis)
    \/ \E outcome \in PushOutcomes : PushNext(outcome)
    \/ SyncDateReturns
    \/ MainExit

InitDriver == DriverInit /\ SyncIdle /\ LedgerIdle /\ FilterIdle /\ DebIdle /\ FocusIdle

SpecDriver == InitDriver /\ [][DriverNext]_vars

LedgerNext ==
    \/ \E d \in LedgerDates : MarkSynced(d)
    \/ \E d \in LedgerDates : IsSynced(d)
    \/ \E a \in LookbackArgs : GetUnsyncedDates(a)
    \/ \E keep_days \in 0..MaxKeep : CleanupOldEntries(keep_days)
    \/ Midnight

InitLedger == LedgerInit /\ FilterIdle /\ DebIdle /\ FocusIdle /\ SyncIdle /\ DriverIdle

SpecLedger == InitLedger /\ [][LedgerNext]_vars

FilterNext ==
    \/ GetNotAfkIntervals
    \/ FilterEventsByNotAfk

InitFilter == FilterInit /\ DebIdle /\ FocusIdle /\ SyncIdle /\ LedgerIdle /\ DriverIdle

SpecFilter == InitFilter /\ [][FilterNext]_vars

InitDebounce == DebInit /\ FilterIdle /\ FocusIdle /\ SyncIdle /\ LedgerIdle /\ DriverIdle

SpecDebounce == InitDebounce /\ [][DebounceEvents]_vars

InitOrder == OrderInit /\ FilterIdle /\ FocusIdle /\ SyncIdle /\ LedgerIdle /\ DriverIdle

SpecOrder == InitOrder /\ [][DebounceEvents]_vars

FocusNext ==
    \/ CalculateFocusScore
    \/ AnalyzeFocusForDate

InitFocus == FocusInit /\ FilterIdle /\ DebIdle /\ SyncIdle /\ LedgerIdle /\ DriverIdle

SpecFocus == InitFocus /\ [][FocusNext]_vars

Init == SyncInit /\ LedgerIdle /\ DriverIdle /\ FilterIdle /\ DebIdle /\ FocusIdle

Next ==
    \/ \E d \in Dates, dry \in BOOLEAN : CallSyncDate(d, dry)
    \/ \E e \in SyncEnvs, analysis \in Analyses : FetchMetrics(e, analysis)
    \/ \E outcome \in PushOutcomes : PushNext(outcome)
    \/ \E d \in Dates : MarkSynced(d)

Spec == Init /\ [][Next]_vars

-----------------------------------------------------------------------------
(* Claims about the interval filter, under SpecFilter.                     *)

WellFormed(e) == e.has_ts /\ e.timestamp # <<>> /\ CanParse(e.timestamp) /\ e.duration > 0

EventSpanStart(e) == fromisoformat(e.timestamp)

EventSpanEnd(e) == fromisoformat(e.timestamp) + e.duration

\* every tick of [start, end) lies in one of the intervals
Covered(e, intervals) ==
    \A t \in EventSpanStart(e)..(EventSpanEnd(e) - 1) :
        \E k \in 1..Len(intervals) : intervals[k][1] <= t /\ t < intervals[k][2]

Returned(i) == \E j \in 1..Len(f_out.events) : f_out.events[j].id = i

\* C3: with a non-empty interval list the filter never raises: every event
\* whose timestamp is missing, empty or unparsable or whose duration is not
\* positive is dropped, and every well-formed event that overlaps a not-idle
\* interval is returned.
C3_MalformedDroppedSilently ==
    f_pc = "done" /\ f_intervals # <<>> =>
        /\ ~f_out.raised
        /\ \A j \in 1..Len(f_out.events) : WellFormed(f_events[f_out.events[j].id])
        /\ \A i \in 1..Len(f_events) :
               WellFormed(f_events[i])
               /\ _overlap_seconds(EventSpanStart(f_events[i]), EventSpanEnd(f_events[i]),
                                   f_intervals) > 0
               => Returned(i)

\* C4: every event the filter returns carries a duration greater than 0 and
\* at most the duration the event came with, for every interval list
\* get_not_afk_intervals produces.
C4_ActiveDurationAtMostOriginal ==
    f_pc = "done" =>
        \A j \in 1..Len(f_out.events) :
            /\ f_out.events[j].duration > 0
            /\ f_out.events[j].duration <= f_events[f_out.events[j].id].duration

\* C5: a well-formed event whose whole span [start, end) is covered by the
\* union of the intervals is returned with exactly the duration it came with.
C5_FullCoverageKeepsDuration ==
    f_pc = "done" /\ ~f_out.raised =>
        \A i \in 1..Len(f_events) :
            WellFormed(f_events[i]) /\ Covered(f_events[i], f_intervals) =>
                \E j \in 1..Len(f_out.events) :
                    /\ f_out.events[j].id = i
                    /\ f_out.events[j].duration = f_events[i].duration

-----------------------------------------------------------------------------
(* Claims about the de-bouncer, under SpecDebounce and SpecOrder.          *)

Instant(e) == fromisoformat(e.timestamp)

\* the events oldest first, by the instant of the timestamp
RECURSIVE ascending(_)
ascending(events) ==
    IF events = <<>>
    THEN <<>>
    ELSE LET m == CHOOSE i \in 1..Len(events) :
                      /\ \A j \in 1..Len(events) : Instant(events[i]) <= Instant(events[j])
                      /\ \A j \in 1..(i - 1) : Instant(events[j]) > Instant(events[i])
         IN  <<events[m]>> \o
             ascending(SubSeq(events, 1, m - 1) \o SubSeq(events, m + 1, Len(events)))

DistinctTimestamps(events) ==
    \A i, j \in 1..Len(events) : i # j => Instant(events[i]) # Instant(events[j])

PermSeqs(s) == {[i \in 1..Len(s) |-> s[f[i]]] : f \in Permutations(1..Len(s))}

\* the runs of the events taken oldest first
ChronologicalRuns == merge_pass(ascending(d_events), 1, <<>>)

\* A, n1, A, n2, ..., nk, A with k >= 1, every n_i of another category than
\* A and shorter than the threshold
IsChain(runs, thr) ==
    /\ Len(runs) >= 3
    /\ Len(runs) % 2 = 1
    /\ \A i \in 1..Len(runs) :
           IF i % 2 = 1
           THEN runs[i].app = runs[1].app
           ELSE runs[i].app # runs[1].app /\ runs[i].duration < thr

C7_SessionsReachThreshold ==
    d_pc = "done" => \A j \in 1..Len(d_out) : d_out[j].duration >= d_thr

\* a lone event shorter than the threshold gave the empty list
C7_Witness ==
    /\ d_pc = "done"
    /\ Len(d_events) = 1
    /\ d_events[1].duration < d_thr
    /\ d_out = <<>>

\* C18: no two neighbours of the session list debounce_events returns are
\* of the same category.
C18_NoAdjacentSameCategory ==
    d_pc = "done" => \A j \in 1..(Len(d_out) - 1) : d_out[j].app # d_out[j + 1].app

\* the runs the first pass makes of the events
MergedRuns == merge_pass(sorted_events(d_events), 1, <<>>)

\* C19: the sessions returned last, together, at most as long as the events
\* supplied and at least as long as the runs of the first pass that reach
\* the threshold.
C19_OnlyShortRunsDiscarded ==
    d_pc = "done" =>
        /\ SumDurations(d_out) <= SumDurations(d_events)
        /\ SumDurations(d_out)
               >= SumDurations(SelectSeq(MergedRuns, LAMBDA r : r.duration >= d_thr))

\* one short run was absorbed and another discarded: the sessions last
\* longer than the long runs and shorter than the events
C19_Witness ==
    /\ d_pc = "done"
    /\ Len(d_out) >= 2
    /\ SumDurations(d_out) < SumDurations(d_events)
    /\ SumDurations(d_out)
           > SumDurations(SelectSeq(MergedRuns, LAMBDA r : r.duration >= d_thr))

\* C8: for events of pairwise distinct timestamps, every permutation of the
\* list gives the session list that the list gives supplied oldest first.
C8_OrderInsensitive ==
    d_pc = "done" /\ DistinctTimestamps(d_events) =>
        /\ d_out = debounce_events(ascending(d_events), d_thr)
        /\ \A p \in PermSeqs(d_events) : debounce_events(p, d_thr) = d_out

\* three events supplied out of order, for which taking them as supplied
\* would have given other sessions
C8_Witness ==
    /\ d_pc = "done"
    /\ Len(d_events) = 3
    /\ DistinctTimestamps(d_events)
    /\ d_events # ascending(d_events)
    /\ d_out # <<>>
    /\ d_out # real_sessions(absorb_pass(merge_pass(d_events, 1, <<>>), 1, <<>>, d_thr), d_thr)

-----------------------------------------------------------------------------
(* Claims about the orchestrator and the scorer, under SpecFocus.          *)

\* the requests to the telemetry source were answered and the not-idle
\* intervals could be derived from the answer
FetchesSucceeded ==
    /\ a_env.aw_up
    /\ ~get_not_afk_intervals(a_env.afk_bucket, a_afk).raised

WindowEvents == get_window_events_for_date(a_env, a_events, a_afk)

NoWindowEvents ==
    \/ ~a_env.window_bucket
    \/ a_events = <<>>
    \/ ~WindowEvents.raised /\ WindowEvents.events = <<>>

NoSessionSurvives ==
    /\ ~WindowEvents.raised
    /\ WindowEvents.events # <<>>
    /\ debounce_events(WindowEvents.events, NOISE_THRESHOLD_SEC * 10) = <<>>

\* C9: when the fetches succeed, analyze_focus_for_date returns None, not
\* an exception and not a record of zeros, whenever the date has no window
\* events or no session survives the de-bouncer; a record it returns has
\* total_sessions >= 1.
C9_AbsentWhenNoData ==
    a_pc = "done" /\ FetchesSucceeded =>
        /\ (NoWindowEvents \/ NoSessionSurvives => a_out.kind = "none")
        /\ (a_out.kind = "metrics" => a_out.metrics.total_sessions >= 1)

\* window events that overlap a not-idle interval and are all noise
C9_Witness ==
    /\ a_pc = "done"
    /\ FetchesSucceeded
    /\ NoSessionSurvives
    /\ a_out.kind = "none"

\* C10: calculate_focus_score returns an integer of 0..100 for every finite
\* non-negative median, switch rate and entropy, and so the focus_score of
\* every record analyze_focus_for_date returns and every value
\* get_focus_score_for_date hands on to be pushed lies in 0..100.
C10_ScoreInRange ==
    /\ s_pc = "done" => ~s_out.raised /\ s_out.score \in 0..100
    /\ a_pc = "done" /\ a_out.kind = "metrics" => a_out.metrics.focus_score \in 0..100
    /\ a_pc = "done" /\ a_out.kind # "raised" => get_focus_score_for_date(a_out) \in 0..100

-----------------------------------------------------------------------------
(* Claims about sync_date, under Spec.                                     *)

AllFourSucceeded ==
    /\ Len(attempts) = 4
    /\ \A i \in 1..4 : attempts[i].outcome = "success"

FetchSucceeded == Len(metrics) = 4

\* C1: after a sync_date(d) that is no dry run has finished, the ledger holds
\* an entry for d if and only if all four pushes succeeded (stated of the runs
\* in which nothing but sync_date has had occasion to write the ledger).
C1_LedgerEntryIffAllPushed ==
    pc = "returned" /\ ~dry_run /\ now = 0 =>
        (is_synced(ledger, date) <=> AllFourSucceeded)

\* C2: when the fetches succeeded and it is no dry run, each of the four
\* attributes is pushed exactly once, in order, whatever the pushes before
\* it came to, and a push that failed makes sync_date return False.
C2_EveryPushAttempted ==
    pc = "returned" /\ ~dry_run /\ FetchSucceeded =>
        /\ [i \in 1..Len(attempts) |-> attempts[i].attr]
               = <<EXIST_SCREEN_TIME_ATTR, EXIST_SOCIAL_ATTR, EXIST_GPT_ATTR,
                   EXIST_FOCUS_SCORE_ATTR>>
        /\ ((\E i \in 1..Len(attempts) : attempts[i].outcome # "success") => ~result)

\* C17: without a web bucket the AI time is 0 and sync_date goes on to push
\* the four values, in order, as far as the sink lets the loop run; without
\* the idle bucket or the window bucket sync_date sends no update request
\* and returns False.
C17_MissingBucketHandling ==
    pc = "returned" /\ telemetry.aw_up =>
        /\ (~telemetry.afk_bucket \/ ~telemetry.window_bucket =>
                attempts = <<>> /\ metrics = <<>> /\ ~result)
        /\ (telemetry.afk_bucket /\ telemetry.window_bucket /\ ~telemetry.web_bucket
            /\ telemetry.analysis # "raised" =>
                /\ FetchSucceeded
                /\ metrics[3] = [attr |-> EXIST_GPT_ATTR, value |-> 0]
                /\ (~dry_run =>
                       /\ Len(attempts) >= 1
                       /\ \A i \in 1..Len(attempts) :
                              /\ attempts[i].attr = metrics[i].attr
                              /\ attempts[i].value = metrics[i].value
                       /\ (Len(attempts) = Len(metrics)
                           \/ attempts[Len(attempts)].outcome = "raise")))

\* without a web bucket all four values were pushed, the AI time as 0
C17_Witness ==
    /\ pc = "returned"
    /\ ~dry_run
    /\ ~telemetry.web_bucket
    /\ Len(attempts) = 4
    /\ attempts[3].value = 0
    /\ result

-----------------------------------------------------------------------------
(* Claims about the ledger, under SpecLedger.                              *)

\* is_synced(d) would return True on the file as it is
IsSyncedNow(d) ==
    LET state == _load_state(file_kind, ledger)
    IN  state.shape = "document" /\ is_synced(state.synced_dates, d)

\* this step is a call of cleanup_old_entries that returned
PruneStep == today' = today /\ l_op'.op = "cleanup_old_entries" /\ ~l_op'.raised

\* C11: after a mark_synced(d) that returned is_synced(d) is true, and it
\* stays true whatever is called next, until a cleanup_old_entries whose
\* cutoff is later than d.
C11_LedgerRoundTrip ==
    /\ [][\A d \in LedgerDates :
             now' = now + 1 /\ l_op'.op = "mark_synced" /\ l_op'.arg = d /\ ~l_op'.raised
                 => IsSyncedNow(d)']_vars
    /\ [][\A d \in LedgerDates :
             IsSyncedNow(d) /\ ~(PruneStep /\ d < today - l_op'.arg)
                 => IsSyncedNow(d)']_vars

\* a date marked in this run is still synced after another date was marked
C11_Witness ==
    /\ l_op.op = "mark_synced"
    /\ ~l_op.raised
    /\ \E d \in LedgerDates :
          /\ d # l_op.arg
          /\ IsSyncedNow(d)
          /\ ledger[strftime(d)] >= 1

\* C12: get_unsynced_dates(N) returns, oldest first and each once, exactly
\* the dates today-N .. today-1 that have no entry in the ledger.
C12_UnsyncedDatesExact ==
    [][l_op'.op = "get_unsynced_dates" /\ ~l_op'.raised /\ today' = today =>
          LET ds == l_op'.dates
              synced == _load_state(file_kind, ledger).synced_dates
          IN  /\ \A i \in 1..(Len(ds) - 1) : ds[i] < ds[i + 1]
              /\ {ds[i] : i \in 1..Len(ds)}
                     = {d \in (today - l_op'.arg)..(today - 1) : strftime(d) \notin DOMAIN synced}]_vars

\* the default lookback returned several dates and left out a marked one
C12_Witness ==
    /\ l_op.op = "get_unsynced_dates"
    /\ ~l_op.raised
    /\ l_op.arg = BACKFILL_DAYS
    /\ Len(l_op.dates) \in 2..(BACKFILL_DAYS - 1)

\* C13: on a file that is missing, unreadable, no JSON or JSON of another
\* shape every operation of the ledger returns, and returns what it returns
\* on an empty ledger.
C13_CorruptFileIsEmptyLedger ==
    l_op.op # "none" /\ l_op.loaded # "document" =>
        /\ ~l_op.raised
        /\ (l_op.op = "is_synced" => ~l_op.flag)
        /\ (l_op.op = "get_unsynced_dates" => Len(l_op.dates) = l_op.arg)

\* C14 as claimed: no step but a cleanup_old_entries removes or changes an
\* entry of the ledger; a mark_synced(d) of a date that has its entry leaves
\* the document as it is.
C14_EntriesNeverUpdated ==
    [][file_kind = "document" /\ ~PruneStep =>
          \A k \in DOMAIN ledger :
              /\ file_kind' = "document"
              /\ k \in DOMAIN ledger'
              /\ ledger'[k] = ledger[k]]_vars

\* C14 as amended: no step but a cleanup_old_entries removes an entry, and
\* the only step that changes the synced_at of an entry is a mark_synced of
\* its date, which sets it to the time of the call.
C14_EntriesKeptUntilPruned ==
    [][file_kind = "document" /\ ~PruneStep =>
          \A k \in DOMAIN ledger :
              /\ file_kind' = "document"
              /\ k \in DOMAIN ledger'
              /\ \/ ledger'[k] = ledger[k]
                 \/ /\ l_op'.op = "mark_synced"
                    /\ strftime(l_op'.arg) = k
                    /\ now' = now + 1
                    /\ ledger'[k] = now]_vars

\* a date that had its entry was marked again, next to an older entry
C14_Witness ==
    /\ l_op.op = "mark_synced"
    /\ ~l_op.raised
    /\ l_op.flag
    /\ ledger[strftime(l_op.arg)] = now - 1
    /\ \E k \in DOMAIN ledger : k # strftime(l_op.arg)

-----------------------------------------------------------------------------
(* Claims about the driver, under SpecDriver.                              *)

AllProvisioned ==
    /\ Len(ensured) = Len(MANAGED_ATTRIBUTES)
    /\ \A i \in 1..Len(ensured) : ensured[i]

\* C15: no update request is sent, and sync_date is not called, before all
\* four attributes were provisioned; a run whose provisioning failed exits
\* with status 1 and a run in setup mode exits after the provisioning, both
\* without a call of sync_date.
C15_NoPushBeforeProvisioned ==
    /\ (attempts # <<>> \/ pc # "idle" \/ calls > 0 => AllProvisioned /\ ~args.setup)
    /\ (m_pc = "exited" /\ ~AllProvisioned => exit_status = 1 /\ calls = 0)
    /\ (m_pc = "exited" /\ args.setup => calls = 0 /\ (AllProvisioned => exit_status = 0))

\* a value is being pushed in a run that provisioned all four attributes
C15_Witness ==
    /\ m_pc = "loop"
    /\ pc = "push"
    /\ Len(attempts) >= 1
    /\ AllProvisioned

\* C16: a run that got past the connection check and the provisioning calls
\* sync_date for every requested date, oldest first, whatever the earlier
\* calls returned, and exits with status 1 if and only if one of the calls
\* returned False.
C16_EveryDateAttempted ==
    m_pc = "exited" /\ AllProvisioned /\ ~args.setup =>
        /\ [i \in 1..Len(done) |-> done[i].date] = requested_dates(args, today)
        /\ \A i \in 1..(Len(done) - 1) : done[i].date < done[i + 1].date
        /\ (exit_status = 1 <=> \E i \in 1..Len(done) : ~done[i].result)
        /\ exit_status \in {0, 1}

\* the first date failed, the second was synced all the same, the run failed
C16_Witness ==
    /\ m_pc = "exited"
    /\ Len(done) = 2
    /\ ~done[1].result
    /\ done[2].result
    /\ exit_status = 1

=============================================================================
